---- MODULE Spec2Model ----
(***************************************************************************)
(* A model of the OnDeck scoreboard (src/scoreboard_old.py): the game     *)
(* store with its recursive merge, the mode state machine, the page       *)
(* rotation of the render loop, and the request handlers of the Flask     *)
(* server, which run in a second thread next to the render loop.          *)
(***************************************************************************)
EXTENDS Integers, Sequences, FiniteSets, TLC

(***************************************************************************)
(* JSON values.  A stored value is a tagged record: None, a number, a     *)
(* boolean, an array or a dict (a function from keys to stored values).   *)
(* A dict of a request body is kept as the sequence of its <<key, value>> *)
(* items, because recursive_update walks u.items() in that order.         *)
(***************************************************************************)
Nil == [t |-> "n", v |-> 0]

Num(n) == [t |-> "s", v |-> n]

Bool(b) == [t |-> "b", v |-> b]

Arr(s) == [t |-> "a", v |-> s]

Dict(f) == [t |-> "d", v |-> f]

\* a str value
Str(s) == [t |-> "x", v |-> s]

Body(items) == [t |-> "p", v |-> items]

EmptyDict == Dict([x \in {} |-> Nil])

\* d[k] = v on a stored dict
Put(d, k, v) ==
    Dict([x \in (DOMAIN d.v) \cup {k} |-> IF x = k THEN v ELSE d.v[x]])

\* d[k] of a stored dict (the key is there)
Get(d, k) == d.v[k]

Has(d, k) == d.t = "d" /\ k \in DOMAIN d.v

LastOr(s, dflt) == IF s = <<>> THEN dflt ELSE s[Len(s)]

(***************************************************************************)
(* recursive_update(d, u), scoreboard_old.py:44-60.  The result gives the *)
(* value of d afterwards, whether the call raised (d is not a dict and u  *)
(* has an item: d.get / d[k] = ... fail on None or a number), and the     *)
(* values d takes after each single assignment, as another thread that    *)
(* holds a reference to d sees them.  A nested dict that d already has is *)
(* updated in place, so its assignments show one by one; a nested dict d  *)
(* does not have yet is built aside and shows when it is assigned.        *)
(***************************************************************************)
RECURSIVE recursive_update(_, _)
recursive_update(d, u) ==
    IF u = <<>> THEN [err |-> FALSE, val |-> d, steps |-> <<>>]
    ELSE IF d.t # "d" THEN [err |-> TRUE, val |-> d, steps |-> <<>>]
    ELSE
      LET k == u[1][1]
          v == u[1][2]
          item ==
            IF v.t = "p"
            THEN LET has == k \in DOMAIN d.v
                     sub == IF has THEN d.v[k] ELSE EmptyDict
                     r   == recursive_update(sub, v.v)
                 IN IF has
                    THEN [err   |-> r.err,
                          val   |-> Put(d, k, r.val),
                          steps |-> [n \in 1..Len(r.steps) |-> Put(d, k, r.steps[n])]]
                    ELSE [err   |-> r.err,
                          val   |-> IF r.err THEN d ELSE Put(d, k, r.val),
                          steps |-> IF r.err THEN <<>> ELSE <<Put(d, k, r.val)>>]
            ELSE [err |-> FALSE, val |-> Put(d, k, v), steps |-> <<Put(d, k, v)>>]
          rest == recursive_update(item.val, Tail(u))
      IN IF item.err THEN item
         ELSE [err |-> rest.err, val |-> rest.val, steps |-> item.steps \o rest.steps]

(***************************************************************************)
(* game_template of main(), scoreboard_old.py:993-1062, with the keys the *)
(* model reads or merges (the other keys of the template have the same    *)
(* shapes: None leaves, and dicts of None leaves).                        *)
(***************************************************************************)
game_template ==
    Dict([game_state   |-> Nil,
          away_score   |-> Nil,
          home_score   |-> Nil,
          inning       |-> Nil,
          inning_state |-> Nil,
          away         |-> Dict([abv |-> Nil, name |-> Nil]),
          home         |-> Dict([abv |-> Nil, name |-> Nil]),
          count        |-> Dict([balls |-> Nil, strikes |-> Nil, outs |-> Nil]),
          runners      |-> Nil,
          start_time   |-> Nil,
          matchup      |-> Dict([batter |-> Nil, batter_summary |-> Nil,
                                 pitcher |-> Nil, pitcher_summary |-> Nil]),
          decisions    |-> Dict([win |-> Nil, win_summary |-> Nil,
                                 loss |-> Nil, loss_summary |-> Nil,
                                 save |-> Nil, save_summary |-> Nil]),
          probables    |-> Dict([away |-> Nil, away_era |-> Nil,
                                 home |-> Nil, home_era |-> Nil]),
          pitch_details   |-> Dict([description |-> Nil, speed |-> Nil,
                                    type |-> Nil, zone |-> Nil]),
          hit_details     |-> Dict([distance |-> Nil, exit_velo |-> Nil,
                                    launch_angle |-> Nil]),
          umpire          |-> Dict([num_missed |-> Nil, home_favor |-> Nil]),
          run_expectancy  |-> Dict([average_runs |-> Nil]),
          win_probability |-> Dict([away |-> Nil, home |-> Nil]),
          display_game |-> Bool(FALSE)])

\* games = [copy.deepcopy(game_template) for _ in range(20)]
NumGames == 20

Slots == 0..(NumGames - 1)

\* Scoreboard._acceptable_modes
acceptable_modes == {"basic", "dual", "detailed", "gamecast"}

NoMode == "None"

\* a page of games is one column of five boxes
games_per_page == 5

(***************************************************************************)
(* The text print_game draws.  A text is the sequence of its characters   *)
(* or of the pieces an f-string puts together.                            *)
(***************************************************************************)
Digit(d) ==
    CASE d = 0 -> "0" [] d = 1 -> "1" [] d = 2 -> "2" [] d = 3 -> "3"
      [] d = 4 -> "4" [] d = 5 -> "5" [] d = 6 -> "6" [] d = 7 -> "7"
      [] d = 8 -> "8" [] OTHER -> "9"

\* str(n) of an int
RECURSIVE format_int(_)
format_int(n) ==
    IF n < 0 THEN <<"-">> \o format_int(0 - n)
    ELSE IF n < 10 THEN <<Digit(n)>>
    ELSE format_int(n \div 10) \o <<Digit(n % 10)>>

\* f'{value}'
format_value(v) ==
    CASE v.t = "n" -> <<"None">>
      [] v.t = "s" -> format_int(v.v)
      [] v.t = "x" -> <<v.v>>
      [] v.t = "b" -> IF v.v THEN <<"True">> ELSE <<"False">>
      [] OTHER -> <<"{}">>

NoText == <<>>

\* what print_game draws besides the scores box: no element, no text
NoLines == [parts |-> {}, label |-> NoText, a |-> NoText, b |-> NoText, c |-> NoText]

\* a faulty variant: only extra innings are named
final_text_extra_only(game) ==
    IF Get(game, "inning").t = "s" /\ Get(game, "inning").v > 9
    THEN <<"F", "/">> \o format_value(Get(game, "inning"))
    ELSE <<"F">>

\* print_game, game_state 'F': the text next to the scores
final_text(game) ==
    IF Get(game, "inning") # Num(9)
    THEN <<"F", "/">> \o format_value(Get(game, "inning"))
    ELSE <<"F">>

batter_line(game) ==
    <<"B:">> \o format_value(Get(Get(game, "matchup"), "batter")) \o <<" (">>
        \o format_value(Get(Get(game, "matchup"), "batter_summary")) \o <<")">>

pitcher_line(game) ==
    <<"P:">> \o format_value(Get(Get(game, "matchup"), "pitcher")) \o <<" (">>
        \o format_value(Get(Get(game, "matchup"), "pitcher_summary")) \o <<")">>

\* a faulty variant: the third out does not turn the lines around
print_batter_pitcher_no_flip(game) ==
    IF Get(game, "inning_state") = Str("T")
    THEN [a |-> batter_line(game), c |-> pitcher_line(game)]
    ELSE [a |-> pitcher_line(game), c |-> batter_line(game)]

\* AllGames._print_batter_pitcher: line_a and line_c
print_batter_pitcher(game) ==
    LET top_state     == Get(game, "inning_state") = Str("T")
        is_top_inning == IF Get(Get(game, "count"), "outs") = Num(3)
                         THEN ~ top_state ELSE top_state
    IN IF is_top_inning
       THEN [a |-> batter_line(game), c |-> pitcher_line(game)]
       ELSE [a |-> pitcher_line(game), c |-> batter_line(game)]

\* f'{tag}{name} ({summary})' of the dict game[group]
pitcher_text(tag, game, group, name, summary) ==
    <<tag>> \o format_value(Get(Get(game, group), name)) \o <<" (">>
        \o format_value(Get(Get(game, group), summary)) \o <<")">>

\* a faulty variant: the winning pitcher always comes first
print_pitcher_decisions_winner_first(game) ==
    LET wp == pitcher_text("WP:", game, "decisions", "win", "win_summary")
        lp == pitcher_text("LP:", game, "decisions", "loss", "loss_summary")
        sv == IF Get(Get(game, "decisions"), "save") # Nil
              THEN pitcher_text("SV:", game, "decisions", "save", "save_summary")
              ELSE NoText
    IN IF Get(game, "away_score") = Get(game, "home_score")
       THEN [a |-> NoText, b |-> NoText, c |-> NoText]
       ELSE [a |-> wp, b |-> sv, c |-> lp]

\* AllGames._print_pitcher_decisions: line_a, line_b and line_c.  (With a
\* score that is not a number Python raises TypeError at the comparison; no
\* FINAL game of the model has such a score.)
print_pitcher_decisions(game) ==
    LET away_score == Get(game, "away_score")
        home_score == Get(game, "home_score")
        numbers    == away_score.t = "s" /\ home_score.t = "s"
        wp == pitcher_text("WP:", game, "decisions", "win", "win_summary")
        lp == pitcher_text("LP:", game, "decisions", "loss", "loss_summary")
        sv == IF Get(Get(game, "decisions"), "save") # Nil
              THEN pitcher_text("SV:", game, "decisions", "save", "save_summary")
              ELSE NoText
    IN IF numbers /\ away_score.v > home_score.v
       THEN [a |-> wp, b |-> sv, c |-> lp]
       ELSE IF numbers /\ home_score.v > away_score.v
       THEN [a |-> lp, b |-> sv, c |-> wp]
       ELSE [a |-> NoText, b |-> NoText, c |-> NoText]

\* AllGames._print_probable_pitchers: line_a and line_c
print_probable_pitchers(game) ==
    [a |-> pitcher_text("SP:", game, "probables", "away", "away_era"),
     b |-> NoText,
     c |-> pitcher_text("SP:", game, "probables", "home", "home_era")]

\* if self.mode in ('basic', 'gamecast'):
status_label_modes == {"basic", "gamecast"}

\* what print_game(game) draws in mode m, after the team names:
\*   parts : which of _print_scores, _print_inning, _print_outs and
\*           _print_runners are called
\*   label : the _print_text beside the scores
\*   a, b, c : the lines of the second column of detailed mode
print_game_text(game, m) ==
    LET state == Get(game, "game_state")
        parts == CASE state = Str("L") -> {"scores", "inning", "outs", "runners"}
                   [] state = Str("F") -> {"scores"}
                   [] state \in {Str("S"), Str("D")} ->
                        IF m = "detailed" THEN {"scores", "inning", "outs", "runners"}
                        ELSE {"scores", "inning"}
                   [] OTHER -> {}
        label == CASE state = Str("F") -> final_text(game)
                   [] state = Str("P") -> format_value(Get(game, "start_time"))
                   [] state = Str("S") /\ m \in status_label_modes -> <<"Susp">>
                   [] state = Str("D") /\ m \in status_label_modes -> <<"Dly">>
                   [] OTHER -> NoText
        none  == [a |-> NoText, b |-> NoText, c |-> NoText]
        lines == IF m # "detailed" THEN none
                 ELSE CASE state = Str("L") ->
                             [a |-> print_batter_pitcher(game).a, b |-> NoText,
                              c |-> print_batter_pitcher(game).c]
                        [] state = Str("F") -> print_pitcher_decisions(game)
                        [] state = Str("P") -> print_probable_pitchers(game)
                        [] state = Str("S") -> [none EXCEPT !.a = <<"Suspended">>]
                        [] state = Str("D") -> [none EXCEPT !.a = <<"Delayed">>]
                        [] OTHER -> none
    IN [parts |-> parts, label |-> label, a |-> lines.a, b |-> lines.b, c |-> lines.c]

(***************************************************************************)
(* The lines of the gamecast panel, Gamecast.print_gamecast.  Line n is   *)
(* drawn at row 16 * (n + 1).  The numbers the feeder sends are modelled  *)
(* as integers.                                                           *)
(***************************************************************************)
RECURSIVE Zeros(_)
Zeros(d) == IF d = 0 THEN <<>> ELSE <<"0">> \o Zeros(d - 1)

\* f'{n:.<d>f}' of a whole number n >= 0
format_fixed(n, d) == format_int(n) \o <<".">> \o Zeros(d)

\* the '>' alignment of a format specification: pad on the left to width w
RECURSIVE pad_left(_, _)
pad_left(chars, w) == IF Len(chars) >= w THEN chars ELSE pad_left(<<" ">> \o chars, w)

PanelLines == 0..14

NoPanelLines == [n \in PanelLines |-> NoText]

\* a faulty variant: the text goes to the first line that is still blank
print_gamecast_line_packed(lines, line_num, text) ==
    LET free == {n \in PanelLines : lines[n] = NoText}
    IN IF text = Nil \/ free = {} THEN lines
       ELSE [lines EXCEPT ![CHOOSE n \in free : \A k \in free : n <= k] = text]

\* _print_gamecast_line(line_num, text): nothing is drawn for None
print_gamecast_line(lines, line_num, text) ==
    IF text = Nil THEN lines ELSE [lines EXCEPT ![line_num] = text]

\* the text argument for a value of the record: None stays None
text_of(v) == IF v = Nil THEN Nil ELSE format_value(v)

print_gamecast_count(lines, game) ==
    LET count == Get(game, "count")
        outs  == Get(count, "outs")
    IN print_gamecast_line(lines, 2,
          format_value(Get(count, "balls")) \o <<"-">> \o format_value(Get(count, "strikes"))
          \o <<" ">> \o format_value(outs) \o <<" Out">>
          \o (IF outs # Num(1) THEN <<"s">> ELSE <<>>))

print_gamecast_umpire_details(lines, game) ==
    LET umpire == Get(game, "umpire")
        home_favor == Get(umpire, "home_favor").v
        abv   == IF home_favor < 0 THEN Get(Get(game, "away"), "abv")
                 ELSE Get(Get(game, "home"), "abv")
        favor == IF home_favor < 0 THEN (0 - 1) * home_favor ELSE home_favor
    IN IF Get(umpire, "num_missed") = Nil THEN lines
       ELSE print_gamecast_line(lines, 4,
               <<"Ump: +">> \o format_fixed(favor, 2) \o <<" ">> \o format_value(abv)
               \o <<" (">> \o format_value(Get(umpire, "num_missed")) \o <<")">>)

print_gamecast_run_expectancy_details(lines, game) ==
    LET average_runs == Get(Get(game, "run_expectancy"), "average_runs")
    IN IF average_runs = Nil THEN lines
       ELSE print_gamecast_line(lines, 5, <<"Avg Runs: ">> \o format_fixed(average_runs.v, 2))

print_gamecast_win_probability_details(lines, game) ==
    LET wp       == Get(game, "win_probability")
        away_win == Get(wp, "away").v * 100
        home_win == Get(wp, "home").v * 100
        win      == IF away_win > home_win THEN away_win ELSE home_win
        abv      == IF away_win > home_win THEN Get(Get(game, "away"), "abv")
                    ELSE Get(Get(game, "home"), "abv")
    IN IF Get(wp, "away") = Nil THEN lines
       ELSE print_gamecast_line(lines, 6,
               <<"Win Prob: ">> \o format_fixed(win, 1) \o <<"% ">> \o format_value(abv))

print_gamecast_pitch_details(lines, game) ==
    LET pitch == Get(game, "pitch_details")
        s     == IF Get(pitch, "speed") # Nil
                 THEN format_value(Get(pitch, "speed")) \o <<" MPH">> \o <<"  Zone:">>
                      \o pad_left(format_int(Get(pitch, "zone").v), 2)
                 ELSE <<>>
        l8    == print_gamecast_line(lines, 8, text_of(Get(pitch, "description")))
        l9    == print_gamecast_line(l8, 9, s)
    IN print_gamecast_line(l9, 10, text_of(Get(pitch, "type")))

print_gamecast_hit_details(lines, game) ==
    LET hit == Get(game, "hit_details")
        l12 == print_gamecast_line(lines, 12,
                  <<"Dist: ">> \o pad_left(format_fixed(Get(hit, "distance").v, 1), 5) \o <<" ft">>)
        l13 == print_gamecast_line(l12, 13,
                  <<"  EV: ">> \o pad_left(format_fixed(Get(hit, "exit_velo").v, 1), 5) \o <<" MPH">>)
    IN IF Get(hit, "distance") = Nil THEN lines
       ELSE print_gamecast_line(l13, 14,
               <<"  LA: ">> \o pad_left(format_fixed(Get(hit, "launch_angle").v, 1), 5) \o <<"°">>)

\* the lines print_gamecast draws, in the order of its calls
gamecast_lines(game) ==
    LET l0 == print_gamecast_line(NoPanelLines, 0, text_of(Get(Get(game, "away"), "name")))
        l1 == print_gamecast_line(l0, 1, text_of(Get(Get(game, "home"), "name")))
        l2 == print_gamecast_count(l1, game)
        l3 == print_gamecast_umpire_details(l2, game)
        l4 == print_gamecast_run_expectancy_details(l3, game)
        l5 == print_gamecast_win_probability_details(l4, game)
        l6 == print_gamecast_pitch_details(l5, game)
    IN print_gamecast_hit_details(l6, game)

(***************************************************************************)
(* The canvas.  Cells 0..4 are the five 50-pixel rows of the left half    *)
(* (x < 192), cells 5..9 the rows of the right half, IndCell the page     *)
(* indicator row y = 255.  A cell holds what was last drawn into it.      *)
(***************************************************************************)
IndCell == 2 * games_per_page

Cells == 0..IndCell

Blank == [k |-> "blank", g |-> Nil, m |-> NoMode, text |-> NoLines,
          lines |-> NoPanelLines]

GameImg(game, m) ==
    [k |-> "game", g |-> game, m |-> m, text |-> print_game_text(game, m),
     lines |-> NoPanelLines]

PanelImg(game) ==
    [k |-> "panel", g |-> game, m |-> "gamecast", text |-> NoLines,
     lines |-> gamecast_lines(game)]

IndImg(page_num) ==
    [k |-> "ind", g |-> Num(page_num), m |-> NoMode, text |-> NoLines,
     lines |-> NoPanelLines]

AllBlank == [c \in Cells |-> Blank]

Visible(game) == Has(game, "display_game") /\ Get(game, "display_game") = Bool(TRUE)

\* AllGames._calculate_offsets with the length clear_game takes for the mode:
\* the cells box `index` covers.  A negative index lies above the canvas.
calculate_offsets(m, index) ==
    IF index < 0 \/ index > 9 THEN {}
    ELSE IF m = "detailed" /\ index < 5 THEN {index, index + 5}
    ELSE {index}

\* AllGames.clear_game raises ValueError when AllGames.mode is not a mode
clear_game_raises(m) == m \notin acceptable_modes

clear_game(cv, m, index) ==
    [c \in Cells |-> IF c \in calculate_offsets(m, index) THEN Blank ELSE cv[c]]

\* AllGames.print_game: clear the box, and draw unless display_game is False
print_game(cv, m, game_index, game) ==
    IF Visible(game)
    THEN [c \in Cells |-> IF c \in calculate_offsets(m, game_index)
                          THEN GameImg(game, m) ELSE cv[c]]
    ELSE clear_game(cv, m, game_index)

\* Gamecast.print_gamecast: _clear_gamecast, then the panel unless
\* display_game is False
PanelCells == 5..9

print_gamecast(cv, game) ==
    [c \in Cells |-> IF c \in PanelCells
                     THEN (IF Visible(game) THEN PanelImg(game) ELSE Blank)
                     ELSE cv[c]]

(***************************************************************************)
(* Pagination, AllGames.loop / print_page / _count_games.                 *)
(***************************************************************************)
Ceil(a, b) == (a + b - 1) \div b

\* a faulty variant: the games that hold a score are counted
count_games_with_score(gs) ==
    Cardinality({i \in DOMAIN gs : Get(gs[i], "away_score") # Nil})

count_games(gs) == Cardinality({i \in DOMAIN gs : Visible(gs[i])})

\* a faulty variant: the division rounds down
loop_num_pages_floor(gs) == count_games(gs) \div games_per_page

\* self.num_pages = math.ceil(self._count_games() / 5)
loop_num_pages(gs) == Ceil(count_games(gs), games_per_page)

\* a faulty variant: every single-column mode skips a single page
cycle_pages_single_column(np, m) ==
    ~ ((np <= 2 /\ m = "dual") \/ (np <= 1 /\ m # "dual"))

\* cycle_pages = not (a or b)
cycle_pages(np, m) ==
    ~ ((np <= 2 /\ m = "dual") \/ (np <= 1 /\ m = "basic"))

\* shifted_games[:10] in dual, shifted_games[:5] otherwise
page_capacity(m) == IF m = "dual" THEN 10 ELSE 5

Min(a, b) == IF a < b THEN a ELSE b

\* a faulty variant: the page is shifted by the capacity of the mode
page_slots_by_capacity(np, page_num, m) ==
    LET max_games    == Min(games_per_page * np, NumGames)
        shift_offset == Min(page_num * page_capacity(m), max_games)
        shifted      == [n \in 1..max_games |->
                           IF n + shift_offset <= max_games
                           THEN n + shift_offset - 1
                           ELSE n + shift_offset - max_games - 1]
    IN SubSeq(shifted, 1, Min(page_capacity(m), max_games))

\* the slots print_page(page_num) draws, by box: the first 5 * num_pages
\* slots of self.games, left-rotated by 5 * page_num, cut to the capacity
page_slots(np, page_num, m) ==
    LET max_games    == Min(games_per_page * np, NumGames)
        shift_offset == Min(page_num * games_per_page, max_games)
        shifted      == [n \in 1..max_games |->
                           IF n + shift_offset <= max_games
                           THEN n + shift_offset - 1
                           ELSE n + shift_offset - max_games - 1]
    IN SubSeq(shifted, 1, Min(page_capacity(m), max_games))

RECURSIVE print_boxes(_, _, _, _, _)
print_boxes(cv, m, gs, slots, n) ==
    IF n > Len(slots) THEN cv
    ELSE print_boxes(print_game(cv, m, n - 1, gs[slots[n]]), m, gs, slots, n + 1)

\* print_page up to, not including, swap_frame
print_page(cv, m, gs, np, page_num) ==
    LET drawn == print_boxes(cv, m, gs, page_slots(np, page_num, m), 1)
    IN [drawn EXCEPT ![IndCell] = IndImg(page_num)]

(***************************************************************************)
(* State.                                                                 *)
(*   games, gamecast_game, game_id : the store (MainServer.games,         *)
(*       Gamecast.gamecast_game, Gamecast.game_id)                        *)
(*   mode, new_mode   : Scoreboard.mode, Scoreboard._new_mode             *)
(*   ag_mode, num_pages, page : AllGames.mode, .num_pages, .page          *)
(*   canvas, frame    : the canvas the draw calls write, and the frame    *)
(*       the last swap_frame put on the display                           *)
(*   rpc              : where the render thread is in Scoreboard.start    *)
(*   spc, sreq, strace, sbox, sresp : where the server thread is in its   *)
(*       handler, the request it serves, the assignments of the merge it  *)
(*       has still to make, the box it drew, the response it returns      *)
(*   merged           : the records a merge has completed on since the     *)
(*       last reset (history; GamecastRecord stands for the gamecast one)  *)
(*   cycle_drawn      : the slots print_page drew since loop() was        *)
(*       entered (a history variable)                                     *)
(*   nreq             : the number of requests received so far            *)
(***************************************************************************)
VARIABLES games, gamecast_game, game_id, mode, new_mode, ag_mode, num_pages,
          page, canvas, frame, rpc, spc, sreq, strace, sbox, sresp, cycle_drawn,
          nreq, merged

vars == <<games, gamecast_game, game_id, mode, new_mode, ag_mode, num_pages,
          page, canvas, frame, rpc, spc, sreq, strace, sbox, sresp, cycle_drawn,
          nreq, merged>>

store_vars == <<games, gamecast_game, game_id>>

render_vars == <<mode, ag_mode, num_pages, page, rpc, cycle_drawn>>

server_vars == <<spc, sreq, strace, sbox, sresp, nreq, merged>>

\* the requests one run of the model sends
MaxRequests == 3

NoReq == [kind |-> "none", idx |-> 0, body |-> <<>>, before |-> Nil, err |-> FALSE]

Resp(status, msg) == [status |-> status, msg |-> msg]

NoResp == Resp(0, "")

NoBox == 0 - 1000

\* Scoreboard(games): mode='dual'; AllGames: mode None, num_pages None, page 0;
\* Gamecast: game_id -1, gamecast_game a copy of games[-1]
\* the gamecast record among the merged records
GamecastRecord == 0 - 1

InitStore ==
    /\ games = [i \in Slots |-> game_template]
    /\ gamecast_game = game_template
    /\ game_id = 0 - 1
    /\ merged = {}

InitThreads ==
    /\ rpc = "top"
    /\ spc = "idle"
    /\ sreq = NoReq
    /\ strace = <<>>
    /\ sbox = NoBox
    /\ sresp = NoResp
    /\ cycle_drawn = {}
    /\ nreq = 0
    /\ canvas = AllBlank
    /\ frame = AllBlank

Init ==
    /\ InitStore
    /\ InitThreads
    /\ mode = "dual"
    /\ new_mode = "dual"
    /\ ag_mode = NoMode
    /\ num_pages = 0
    /\ page = 0

(***************************************************************************)
(* The render thread: Scoreboard.start, AllGames.loop, print_page.        *)
(***************************************************************************)
\* a faulty variant: the loop is handed the requested mode
start_loop_mode_pending(m, nm) == nm

\* the mode Scoreboard.start hands to AllGames.loop
start_loop_mode(m, nm) == m

\* a faulty variant: the mode is committed at every boundary
mode_changed_always(m, nm) == TRUE

\* self.mode != self.new_mode
mode_changed(m, nm) == m # nm

\* if self.mode == 'gamecast': self.gamecast.print_gamecast()
StartTop ==
    /\ rpc = "top"
    /\ IF mode = "gamecast"
       THEN /\ canvas' = print_gamecast(canvas, gamecast_game)
            /\ rpc' = IF Visible(gamecast_game) THEN "gc_swap" ELSE "loop"
       ELSE /\ rpc' = "loop"
            /\ UNCHANGED canvas
    /\ UNCHANGED <<store_vars, server_vars, mode, new_mode, ag_mode, num_pages,
                   page, frame, cycle_drawn>>

\* the swap_frame that ends print_gamecast
StartGamecastSwap ==
    /\ rpc = "gc_swap"
    /\ frame' = canvas
    /\ rpc' = "loop"
    /\ UNCHANGED <<store_vars, server_vars, mode, new_mode, ag_mode, num_pages,
                   page, canvas, cycle_drawn>>

\* AllGames.loop(mode) up to the first print_page
LoopEnter ==
    /\ rpc = "loop"
    /\ LET m  == start_loop_mode(mode, new_mode)
           np == loop_num_pages(games)
       IN /\ ag_mode' = m
          /\ num_pages' = np
          /\ cycle_drawn' = {}
          /\ IF cycle_pages(np, m) /\ np > 0
             THEN page' = 0 /\ rpc' = "draw"
             ELSE UNCHANGED page /\ rpc' = "cmp"
    /\ UNCHANGED <<store_vars, server_vars, mode, new_mode, canvas, frame>>

\* print_page(self.page): the boxes and the page indicator
PrintPageDraw ==
    /\ rpc = "draw"
    /\ canvas' = print_page(canvas, ag_mode, games, num_pages, page)
    /\ cycle_drawn' = cycle_drawn \cup
          {page_slots(num_pages, page, ag_mode)[n] :
              n \in 1..Len(page_slots(num_pages, page, ag_mode))}
    /\ rpc' = "swap"
    /\ UNCHANGED <<store_vars, server_vars, mode, new_mode, ag_mode, num_pages,
                   page, frame>>

\* print_page: self.display_manager.swap_frame()
PrintPageSwap ==
    /\ rpc = "swap"
    /\ frame' = canvas
    /\ rpc' = "dwell"
    /\ UNCHANGED <<store_vars, server_vars, mode, new_mode, ag_mode, num_pages,
                   page, canvas, cycle_drawn>>

\* a faulty variant: every other page is left out
range_next_skip(pg) == pg + 2

\* the value after pg in range(self.num_pages)
range_next(pg) == pg + 1

\* time.sleep(10) is over: the next self.page of range(self.num_pages)
PageNext ==
    /\ rpc = "dwell"
    /\ IF range_next(page) < num_pages
       THEN page' = range_next(page) /\ rpc' = "draw"
       ELSE UNCHANGED page /\ rpc' = "cmp"
    /\ UNCHANGED <<store_vars, server_vars, mode, new_mode, ag_mode, num_pages,
                   canvas, frame, cycle_drawn>>

\* if self.mode != self.new_mode:
ModeCompare ==
    /\ rpc = "cmp"
    /\ rpc' = IF mode_changed(mode, new_mode) THEN "commit" ELSE "top"
    /\ UNCHANGED <<store_vars, server_vars, mode, new_mode, ag_mode, num_pages,
                   page, canvas, frame, cycle_drawn>>

\* self.mode = self.new_mode; clear_section(0, 0, 384, 256)
ModeCommit ==
    /\ rpc = "commit"
    /\ mode' = new_mode
    /\ canvas' = AllBlank
    /\ rpc' = "top"
    /\ UNCHANGED <<store_vars, server_vars, new_mode, ag_mode, num_pages,
                   page, frame, cycle_drawn>>

RenderNext ==
    \/ StartTop
    \/ StartGamecastSwap
    \/ LoopEnter
    \/ PrintPageDraw
    \/ PrintPageSwap
    \/ PageNext
    \/ ModeCompare
    \/ ModeCommit

(***************************************************************************)
(* The server thread: the handlers of MainServer.  One request is served  *)
(* at a time; each handler is cut where the render thread can run in      *)
(* between: after each assignment of a merge, before a draw, before a     *)
(* swap_frame, before the return.                                         *)
(***************************************************************************)
\* a faulty variant: the flag is left as it is
SetVisible_never(game, b) == game

\* game['display_game'] = True / False
SetVisible(game, b) == Put(game, "display_game", Bool(b))

\* shifted_game_index = game_index - (self.scoreboard.all_games.page * games_per_page)
shifted_game_index(game_index, pg) == game_index - (pg * games_per_page)

\* print_game_if_on_page: the two early returns
on_page(m, shifted) ==
    /\ ~ (m \in {"basic", "detailed", "gamecast"} /\ shifted > 4)
    /\ ~ (m = "dual" /\ shifted > 9)

\* a faulty variant: an index past the end wraps around
slot_of_wrapped(i) == i % NumGames

\* self.games[game_index]: the slot a game_index addresses.  The route's int
\* converter lets no negative index through, so game_index >= 0.
slot_of(i) == i

\* POST /<int:game_index>: new_data = request.get_json(), and the merge is set up
ReceiveData(i, u) ==
    /\ spc = "idle"
    /\ nreq < MaxRequests
    /\ nreq' = nreq + 1
    /\ IF slot_of(i) \in Slots
       THEN LET r == recursive_update(games[slot_of(i)], u)
            IN /\ sreq' = [kind |-> "update", idx |-> i, body |-> u,
                           before |-> games[slot_of(i)], err |-> r.err]
               /\ strace' = r.steps
               /\ spc' = "merge"
               /\ UNCHANGED sresp
       ELSE \* self.games[game_index] raises IndexError
            /\ sreq' = [kind |-> "update", idx |-> i, body |-> u,
                        before |-> Nil, err |-> TRUE]
            /\ sresp' = Resp(500, "IndexError")
            /\ spc' = "respond"
            /\ UNCHANGED strace
    /\ UNCHANGED <<store_vars, render_vars, new_mode, canvas, frame, sbox, merged>>

\* POST /gamecast
GamecastData(u) ==
    /\ spc = "idle"
    /\ nreq < MaxRequests
    /\ nreq' = nreq + 1
    /\ LET r == recursive_update(gamecast_game, u)
       IN /\ sreq' = [kind |-> "gamecast", idx |-> 0, body |-> u,
                      before |-> gamecast_game, err |-> r.err]
          /\ strace' = r.steps
          /\ spc' = "merge"
    /\ UNCHANGED <<store_vars, render_vars, new_mode, canvas, frame, sbox, sresp, merged>>

\* one assignment d[k] = ... of recursive_update
MergeStep ==
    /\ spc = "merge"
    /\ strace # <<>>
    /\ IF sreq.kind = "update"
       THEN /\ games' = [games EXCEPT ![slot_of(sreq.idx)] = Head(strace)]
            /\ UNCHANGED gamecast_game
       ELSE /\ gamecast_game' = Head(strace)
            /\ UNCHANGED games
    /\ strace' = Tail(strace)
    /\ UNCHANGED <<nreq, merged, game_id, render_vars, new_mode, canvas, frame, spc, sreq, sbox, sresp>>

\* recursive_update is over: it raised, or ['display_game'] = True
MergeEnd ==
    /\ spc = "merge"
    /\ strace = <<>>
    /\ IF sreq.err
       THEN /\ sresp' = Resp(500, "TypeError")
            /\ spc' = "respond"
            /\ UNCHANGED <<games, gamecast_game, merged>>
       ELSE /\ IF sreq.kind = "update"
               THEN /\ games' = [games EXCEPT ![slot_of(sreq.idx)] = SetVisible(@, TRUE)]
                    /\ merged' = merged \cup {slot_of(sreq.idx)}
                    /\ UNCHANGED gamecast_game
               ELSE /\ gamecast_game' = SetVisible(gamecast_game, TRUE)
                    /\ merged' = merged \cup {GamecastRecord}
                    /\ UNCHANGED games
            /\ spc' = IF sreq.kind = "update" THEN "reconcile" ELSE "gc_check"
            /\ UNCHANGED sresp
    /\ UNCHANGED <<nreq, game_id, render_vars, new_mode, canvas, frame, sreq, strace, sbox>>

\* MainServer.print_game_if_on_page up to, not including, swap_frame
PrintGameIfOnPage ==
    /\ spc = "reconcile"
    /\ LET shifted == shifted_game_index(sreq.idx, page)
       IN IF ~ on_page(mode, shifted)
          THEN /\ spc' = "respond"
               /\ sresp' = Resp(200, "ok")
               /\ UNCHANGED <<canvas, sbox>>
          ELSE IF clear_game_raises(ag_mode)
          THEN /\ spc' = "respond"
               /\ sresp' = Resp(500, "ValueError")
               /\ UNCHANGED <<canvas, sbox>>
          ELSE /\ canvas' = print_game(canvas, ag_mode, shifted, games[slot_of(sreq.idx)])
               /\ sbox' = shifted
               /\ spc' = "swap"
               /\ UNCHANGED sresp
    /\ UNCHANGED <<nreq, merged, store_vars, render_vars, new_mode, frame, sreq, strace>>

\* if self.scoreboard.mode == 'gamecast':
GamecastCheck ==
    /\ spc = "gc_check"
    /\ IF mode = "gamecast"
       THEN spc' = "gc_draw" /\ UNCHANGED sresp
       ELSE spc' = "respond" /\ sresp' = Resp(200, "ok")
    /\ UNCHANGED <<nreq, merged, store_vars, render_vars, new_mode, canvas, frame, sreq, strace, sbox>>

\* self.scoreboard.gamecast.print_gamecast() up to, not including, swap_frame
GamecastDraw ==
    /\ spc = "gc_draw"
    /\ canvas' = print_gamecast(canvas, gamecast_game)
    /\ IF Visible(gamecast_game)
       THEN spc' = "swap" /\ UNCHANGED sresp
       ELSE spc' = "respond" /\ sresp' = Resp(200, "ok")
    /\ UNCHANGED <<nreq, merged, store_vars, render_vars, new_mode, frame, sreq, strace, sbox>>

\* a faulty variant: a reset puts the template back
reset_record_to_template(game) == game_template

\* game['display_game'] = False of reset_games
reset_record(game) == SetVisible(game, FALSE)

\* GET /reset: the display_game flags
ResetGames ==
    /\ spc = "idle"
    /\ nreq < MaxRequests
    /\ nreq' = nreq + 1
    /\ games' = [i \in Slots |-> reset_record(games[i])]
    /\ gamecast_game' = reset_record(gamecast_game)
    /\ merged' = {}
    /\ sreq' = [NoReq EXCEPT !.kind = "reset"]
    /\ spc' = "reset_clear"
    /\ UNCHANGED <<game_id, render_vars, new_mode, canvas, frame, strace, sbox, sresp>>

RECURSIVE clear_games(_, _, _)
clear_games(cv, m, n) ==
    IF n = 0 THEN cv ELSE clear_game(clear_games(cv, m, n - 1), m, n - 1)

\* for i in range(10): self.scoreboard.all_games.clear_game(i)
ResetClear ==
    /\ spc = "reset_clear"
    /\ IF clear_game_raises(ag_mode)
       THEN /\ spc' = "respond"
            /\ sresp' = Resp(500, "ValueError")
            /\ UNCHANGED canvas
       ELSE /\ canvas' = clear_games(canvas, ag_mode, 2 * games_per_page)
            /\ spc' = "swap"
            /\ UNCHANGED sresp
    /\ UNCHANGED <<nreq, merged, store_vars, render_vars, new_mode, frame, sreq, strace, sbox>>

\* self.scoreboard.display_manager.swap_frame() of a handler
ServerSwap ==
    /\ spc = "swap"
    /\ frame' = canvas
    /\ spc' = "respond"
    /\ sresp' = Resp(200, "ok")
    /\ UNCHANGED <<nreq, merged, store_vars, render_vars, new_mode, canvas, sreq, strace, sbox>>

\* int(gameid) of the id strings the model sends; None is no id argument
IdStrings == {"3", "-1", "abc"}

\* a faulty variant: every id string is taken for a number
int_parses_any(str) == TRUE

int_parses(str) == str \in {"3", "-1"}

int_value(str) == IF str = "3" THEN 3 ELSE 0 - 1

\* a faulty variant: the setter takes any value but None
new_mode_setter_unchecked(cur, value) ==
    IF value = NoMode THEN [raises |-> FALSE, val |-> cur]
    ELSE [raises |-> FALSE, val |-> value]

\* Scoreboard.new_mode setter
new_mode_setter(cur, value) ==
    IF value = NoMode THEN [raises |-> FALSE, val |-> cur]
    ELSE IF value \notin acceptable_modes THEN [raises |-> TRUE, val |-> cur]
    ELSE [raises |-> FALSE, val |-> value]

\* GET /settings?mode=&id=
Settings(mode_arg, gameid) ==
    /\ spc = "idle"
    /\ nreq < MaxRequests
    /\ nreq' = nreq + 1
    /\ sreq' = [NoReq EXCEPT !.kind = "settings", !.body = <<mode_arg, gameid>>]
    /\ spc' = "respond"
    /\ LET set == new_mode_setter(new_mode, mode_arg)
       IN IF mode_arg = NoMode /\ gameid = NoMode
          THEN /\ sresp' = Resp(200, "modes")
               /\ UNCHANGED <<new_mode, game_id>>
          ELSE IF set.raises
          THEN /\ sresp' = Resp(200, "Mode not recognized")
               /\ UNCHANGED <<new_mode, game_id>>
          ELSE /\ new_mode' = set.val
               /\ IF gameid = NoMode
                  THEN sresp' = Resp(200, "modes") /\ UNCHANGED game_id
                  ELSE IF int_parses(gameid)
                  THEN sresp' = Resp(200, "modes") /\ game_id' = int_value(gameid)
                  ELSE sresp' = Resp(200, "Game ID not recognized") /\ UNCHANGED game_id
    /\ UNCHANGED <<games, gamecast_game, render_vars, canvas, frame, strace, sbox, merged>>

\* return jsonify(...), or the 500 of an exception
Respond ==
    /\ spc = "respond"
    /\ spc' = "idle"
    /\ sreq' = NoReq
    /\ sbox' = NoBox
    /\ sresp' = NoResp
    /\ UNCHANGED <<nreq, merged, store_vars, render_vars, new_mode, canvas, frame, strace>>

(***************************************************************************)
(* Request bodies and the requests of the environment.                    *)
(***************************************************************************)
BodyScoresA == <<<<"away_score", Num(1)>>, <<"home_score", Num(1)>>>>

BodyScoresB == <<<<"away_score", Num(2)>>, <<"home_score", Num(2)>>>>

BodyOuts == <<<<"count", Body(<<<<"outs", Num(3)>>>>)>>>>

BodyCount == <<<<"count", Body(<<<<"balls", Num(1)>>, <<"outs", Num(1)>>>>)>>,
               <<"away_score", Num(3)>>>>

BodyEmpty == <<>>

\* a dict for a key the template holds as None
BodyRunnersDict == <<<<"inning", Num(9)>>, <<"runners", Body(<<<<"first", Num(1)>>>>)>>>>

\* a dict for a key the template does not have
BodyNewKey == <<<<"flags", Body(<<<<"no_hitter", Bool(TRUE)>>>>)>>>>

\* a number for a key the template holds as a dict
BodyCountScalar == <<<<"count", Num(0)>>>>

BodyArray == <<<<"runners", Arr(<<1, 0, 1>>)>>>>

\* the slots the feeder posts to
UpdateSlots == {0, 7}

UpdateBodies == {BodyScoresA, BodyScoresB}

GamecastBodies == {BodyScoresA}

ModeArgs == {"basic", "detailed", "gamecast", "dual", "bogus", NoMode}

IdArgs == {NoMode}

ServerNext ==
    \/ \E i \in UpdateSlots, u \in UpdateBodies : ReceiveData(i, u)
    \/ \E u \in GamecastBodies : GamecastData(u)
    \/ MergeStep
    \/ MergeEnd
    \/ PrintGameIfOnPage
    \/ GamecastCheck
    \/ GamecastDraw
    \/ ResetGames
    \/ ResetClear
    \/ ServerSwap
    \/ \E m \in ModeArgs, g \in IdArgs : Settings(m, g)
    \/ Respond

Next == RenderNext \/ ServerNext

\* the scoreboard thread and the server thread of main(), from construction
Spec == Init /\ [][Next]_vars

(***************************************************************************)
(* SpecMerge: the feeder posts updates to one slot while the render loop  *)
(* idles in dual mode (nothing to rotate).                                *)
(***************************************************************************)
MergeSlots == {0}

MergeBodies == {BodyScoresA, BodyOuts, BodyCount, BodyEmpty, BodyRunnersDict,
                BodyNewKey, BodyCountScalar, BodyArray}

MergeNext ==
    \/ StartTop
    \/ LoopEnter
    \/ ModeCompare
    \/ \E i \in MergeSlots, u \in MergeBodies : ReceiveData(i, u)
    \/ MergeStep
    \/ MergeEnd
    \/ PrintGameIfOnPage
    \/ ServerSwap
    \/ Respond

SpecMerge == Init /\ [][MergeNext]_vars

(***************************************************************************)
(* C1.  The deep merge the specification describes: a dict of the partial *)
(* is merged recursively into the dict the record has under that key, and *)
(* any other value of the partial, or a dict where the record has no      *)
(* dict, overwrites.                                                      *)
(***************************************************************************)
RECURSIVE DeepMerge(_, _)
DeepMerge(d, u) ==
    IF u = <<>> THEN d
    ELSE LET k  == u[1][1]
             v  == u[1][2]
             nv == IF v.t # "p" THEN v
                   ELSE IF Has(d, k) /\ Get(d, k).t = "d"
                   THEN DeepMerge(Get(d, k), v.v)
                   ELSE DeepMerge(EmptyDict, v.v)
         IN DeepMerge(Put(d, k, nv), Tail(u))

UpdateReturns == spc = "respond" /\ sreq.kind = "update" /\ sreq.idx \in Slots

\* C1: when POST /{index} returns, the slot's record is the deep merge of the
\* partial into the record the slot had before (with display_game set), so
\* that a sequence of calls leaves the deep merge of all partials in order.
C1_MergeIsDeepMerge ==
    UpdateReturns =>
        games[sreq.idx] = SetVisible(DeepMerge(sreq.before, sreq.body), TRUE)

\* the same for the bodies that bring a dict only where the record has a dict
\* or has no such key
RECURSIVE WellShaped(_, _)
WellShaped(d, u) ==
    \A n \in 1..Len(u) :
        u[n][2].t = "p" =>
            \/ ~ Has(d, u[n][1])
            \/ Get(d, u[n][1]).t = "d" /\ WellShaped(Get(d, u[n][1]), u[n][2].v)

C1_MergeOfWellShaped ==
    (UpdateReturns /\ WellShaped(sreq.before, sreq.body)) =>
        games[sreq.idx] = SetVisible(DeepMerge(sreq.before, sreq.body), TRUE)

(***************************************************************************)
(* SpecPage: the render loop over a store the feeder has filled.  The     *)
(* feeder posted its games, and a /settings request named a mode, before  *)
(* the scoreboard thread took its first step (each POST stored its data   *)
(* and then failed in clear_game, AllGames.mode being None); no request   *)
(* arrives afterwards.                                                    *)
(***************************************************************************)
\* the largest run of slots 0..k-1 the feeder filled
MaxLoaded == 12

\* the slots among which the feeder filled two, leaving gaps
MaxSparse == 7

LoadedGame == SetVisible(recursive_update(game_template, BodyScoresA).val, TRUE)

LoadedSets ==
    {0..(k - 1) : k \in 0..MaxLoaded} \cup
    {{a, b} : a \in 0..MaxSparse, b \in 0..MaxSparse}

InitPage ==
    /\ \E S \in LoadedSets :
          games = [i \in Slots |-> IF i \in S THEN LoadedGame ELSE game_template]
    /\ gamecast_game \in {game_template, LoadedGame}
    /\ game_id = 0 - 1
    /\ merged = {i \in Slots : Visible(games[i])} \cup
                (IF Visible(gamecast_game) THEN {GamecastRecord} ELSE {})
    /\ InitThreads
    /\ mode = "dual"
    /\ new_mode \in acceptable_modes
    /\ ag_mode = NoMode
    /\ num_pages = 0
    /\ page = 0

SpecPage == InitPage /\ [][RenderNext]_vars

VisibleSlots == {i \in Slots : Visible(games[i])}

countVisible == Cardinality(VisibleSlots)

\* loop() has been entered at least once
LoopEntered == ag_mode # NoMode

(***************************************************************************)
(* C4.                                                                    *)
(***************************************************************************)
Max(a, b) == IF a > b THEN a ELSE b

\* C4 as claimed: pageCount = max(1, ceil(countVisible / capacity(mode))), the
\* capacity being 10 in dual and 5 in the other modes.
C4_PageCountByCapacity ==
    LoopEntered =>
        num_pages = Max(1, Ceil(countVisible, page_capacity(ag_mode)))

\* C4 as amended: num_pages is the least number of five-slot columns that hold
\* the visible slots, in every mode, and 0 when no slot is visible; 12 visible
\* slots give 3 in dual, 3 visible slots give 1 in basic.
C4_PageCountByFive ==
    LoopEntered =>
        /\ games_per_page * num_pages >= countVisible
        /\ games_per_page * (num_pages - 1) < countVisible
        /\ (countVisible = 12 /\ ag_mode = "dual" => num_pages = 3)
        /\ (countVisible = 3 /\ ag_mode = "basic" => num_pages = 1)
        /\ (countVisible = 0 => num_pages = 0)

C4_Witness ==
    /\ rpc = "draw"
    /\ ag_mode = "dual"
    /\ countVisible = 12
    /\ num_pages = 3

(***************************************************************************)
(* C5.                                                                    *)
(***************************************************************************)
RECURSIVE SortedSeq(_)
SortedSeq(S) ==
    IF S = {} THEN <<>>
    ELSE LET lo == CHOOSE x \in S : \A y \in S : x <= y
         IN <<lo>> \o SortedSeq(S \ {lo})

\* what a box shows of a slot
Shown(slot) ==
    IF Visible(games[slot]) THEN GameImg(games[slot], ag_mode) ELSE Blank

\* print_page has drawn page `page` and has not swapped yet
PageDrawn == rpc = "swap"

CycleShown == rpc = "dwell" /\ page + 1 >= num_pages

\* C6: when a page cycle has shown its last page, every visible slot has been
\* drawn on one of its pages, whichever slots are the visible ones.
C6_EveryVisibleSlotDrawn ==
    CycleShown => VisibleSlots \subseteq cycle_drawn

(***************************************************************************)
(* C2, C3: the mode and the page cycle.                                   *)
(***************************************************************************)
\* the render thread is inside print_page of some page of a cycle
InCycle == rpc \in {"draw", "swap", "dwell"}

C3_CommitClearsOnce ==
    [][ /\ (rpc = "cmp" /\ rpc' # "cmp") =>
              /\ rpc' = (IF mode # new_mode THEN "commit" ELSE "top")
              /\ mode' = mode
              /\ canvas' = canvas
        /\ (rpc = "commit" /\ rpc' # "commit") =>
              /\ rpc' = "top"
              /\ mode' = new_mode
              /\ mode' = new_mode'
              /\ canvas' = AllBlank
        /\ (rpc' = "commit" /\ rpc # "commit") => (rpc = "cmp" /\ mode # new_mode)
      ]_vars

\* a transition has been committed: the mode is the requested one, and the
\* canvas is clear while the frame still shows what was drawn before
C3_Witness ==
    /\ rpc = "top"
    /\ mode = "basic"
    /\ new_mode = "basic"
    /\ canvas = AllBlank
    /\ frame # AllBlank

(***************************************************************************)
(* C8, C9: the two threads.                                               *)
(***************************************************************************)
\* the server thread is between the first assignment of a merge into slot i
\* and the display_game = True that ends it
Merging(i) ==
    /\ spc = "merge"
    /\ sreq.kind = "update"
    /\ sreq.idx = i
    /\ ~ sreq.err

\* the record an update leaves: the whole merge, and display_game = True
MergedRecord == SetVisible(recursive_update(sreq.before, sreq.body).val, TRUE)

\* C8: a print_page that draws slot i while an update of slot i is being
\* merged reads the record as it was before the merge or as it is after the
\* whole merge, display_game = True included.
C8_RenderSeesWholeRecords ==
    [][ \A i \in Slots :
          ( /\ rpc = "draw" /\ rpc' = "swap"
            /\ Merging(i)
            /\ \E n \in 1..Len(page_slots(num_pages, page, ag_mode)) :
                  page_slots(num_pages, page, ag_mode)[n] = i )
          => games[i] \in {sreq.before, MergedRecord} ]_vars

\* C9: the render thread and a request handler are never both between a draw
\* and the swap_frame that publishes it.
C9_DrawsAndSwapsSerialized ==
    ~ (rpc \in {"swap", "gc_swap"} /\ spc = "swap")

(***************************************************************************)
(* SpecLoaded: the render loop over a loaded store while the feeder posts *)
(* updates of games that are already on the board.                        *)
(***************************************************************************)
LoadedSlots == {0}

LoadedBodies == {BodyScoresB}

LoadedNext ==
    \/ RenderNext
    \/ \E i \in LoadedSlots, u \in LoadedBodies : ReceiveData(i, u)
    \/ MergeStep
    \/ MergeEnd
    \/ PrintGameIfOnPage
    \/ ServerSwap
    \/ Respond

SpecLoaded == InitPage /\ [][LoadedNext]_vars

(***************************************************************************)
(* C7.                                                                    *)
(***************************************************************************)
\* the boxes (from 0) that slot i has in the page print_page drew last
WindowBoxes(i) ==
    {n - 1 : n \in {k \in 1..Len(page_slots(num_pages, page, ag_mode)) :
                       page_slots(num_pages, page, ag_mode)[k] = i}}

\* C7: when the merge of an update of slot i is over while a page is on
\* display, the handler redraws the slot and goes on to swap the frame if
\* and only if slot i is in the window of that page, and it draws the slot in
\* the box it has in that window; otherwise it draws nothing.
C7_RedrawIffInWindow ==
    [][ (spc = "reconcile" /\ spc' # "reconcile" /\ rpc = "dwell") =>
           IF WindowBoxes(sreq.idx) # {}
           THEN /\ spc' = "swap"
                /\ sbox' \in WindowBoxes(sreq.idx)
                /\ canvas' = print_game(canvas, ag_mode, sbox', games[sreq.idx])
           ELSE /\ spc' = "respond"
                /\ canvas' = canvas ]_vars

(***************************************************************************)
(* SpecFair: one game is posted and modes are requested; the scoreboard   *)
(* thread keeps running, and a handler that has started runs to its       *)
(* return.                                                                 *)
(***************************************************************************)
FairSlots == {0}

FairBodies == {BodyScoresA}

FairModes == {"basic", "detailed", "dual"}

FairRender ==
    \/ StartTop
    \/ LoopEnter
    \/ PrintPageDraw
    \/ PrintPageSwap
    \/ PageNext
    \/ ModeCompare
    \/ ModeCommit

FairHandler ==
    \/ MergeStep
    \/ MergeEnd
    \/ PrintGameIfOnPage
    \/ ServerSwap
    \/ Respond

FairNext ==
    \/ FairRender
    \/ FairHandler
    \/ \E i \in FairSlots, u \in FairBodies : ReceiveData(i, u)
    \/ \E m \in FairModes : Settings(m, NoMode)

SpecFair ==
    /\ Init
    /\ [][FairNext]_vars
    /\ WF_vars(FairRender)
    /\ WF_vars(FairHandler)

(***************************************************************************)
(* C10.                                                                   *)
(***************************************************************************)
\* print_page has just drawn a page that holds slot i
LoopRenders(i) ==
    /\ rpc = "swap"
    /\ \E n \in 1..Len(page_slots(num_pages, page, ag_mode)) :
          page_slots(num_pages, page, ag_mode)[n] = i

\* C10: every slot that stays visible is rendered by the render loop again
\* and again, when the rotation is skipped and after a mode change too.
C10_LoopRendersVisible ==
    \A i \in FairSlots : []<>(Visible(games[i]) => LoopRenders(i))

(***************************************************************************)
(* C11.                                                                   *)
(***************************************************************************)
\* loop() leaves its first lines: to the first page, or back to start()
LoopDecides == rpc = "loop" /\ rpc' # "loop"

\* C11 as claimed: loop() returns without a page exactly when num_pages <= 1
\* in basic, detailed or gamecast, or num_pages <= 2 in dual; otherwise it
\* goes through the pages.
C11_SkipInSingleColumn ==
    [][ LoopDecides =>
          ( rpc' = "cmp" <=>
              \/ (num_pages' <= 1 /\ ag_mode' \in {"basic", "detailed", "gamecast"})
              \/ (num_pages' <= 2 /\ ag_mode' = "dual") ) ]_vars

\* C11 as amended: loop() returns without a page exactly when num_pages <= 2
\* in dual or num_pages <= 1 in basic (or there is no page at all); in
\* detailed and gamecast a single page is rendered too, and whenever pages
\* are rendered they are pages 0 .. num_pages - 1 in turn.
C11_SkipInBasicAndDual ==
    [][ /\ LoopDecides =>
              /\ rpc' = "cmp" <=>
                    \/ num_pages' = 0
                    \/ (num_pages' <= 1 /\ ag_mode' = "basic")
                    \/ (num_pages' <= 2 /\ ag_mode' = "dual")
              /\ rpc' # "cmp" => (rpc' = "draw" /\ page' = 0)
        /\ (rpc = "dwell" /\ rpc' # "dwell") =>
              IF page + 1 < num_pages
              THEN rpc' = "draw" /\ page' = page + 1
              ELSE rpc' = "cmp" ]_vars

\* a single page of detailed mode is being rendered
C11_Witness ==
    /\ rpc = "swap"
    /\ ag_mode = "detailed"
    /\ num_pages = 1
    /\ page = 0
    /\ canvas[IndCell] = IndImg(0)

(***************************************************************************)
(* C12.                                                                   *)
(***************************************************************************)
\* C12 as claimed: _count_games() is the number of records a merge was made
\* on since the last reset, whether by POST /<index> or by POST /gamecast.
C12_CountIsMergedRecords == count_games(games) = Cardinality(merged)

\* C12 as amended: _count_games() is the number of distinct slots on which a
\* POST /<index> has completed its merge since the last reset; a merge by
\* POST /gamecast goes to the gamecast record and is not counted.
C12_CountIsMergedSlots == count_games(games) = Cardinality(merged \cap Slots)

\* slot 0 was merged before a reset and slot 7 after it
C12_Witness ==
    /\ spc = "idle"
    /\ merged = {7}
    /\ count_games(games) = 1
    /\ Get(games[0], "away_score") # Nil
    /\ ~ Visible(games[0])

(***************************************************************************)
(* SpecSettings: GET /settings requests, with and without a mode and an   *)
(* id, next to the render loop of an empty board.                         *)
(***************************************************************************)
SettingsNext ==
    \/ StartTop
    \/ LoopEnter
    \/ ModeCompare
    \/ ModeCommit
    \/ \E m \in ModeArgs, g \in IdStrings \cup {NoMode} : Settings(m, g)
    \/ Respond

SpecSettings == Init /\ [][SettingsNext]_vars

\* the step that serves a GET /settings request; its arguments are in sreq'
SettingsServed == spc = "idle" /\ spc' = "respond" /\ sreq'.kind = "settings"

(***************************************************************************)
(* C13.                                                                   *)
(***************************************************************************)
\* C13: a settings request changes new_mode only to a mode argument that is
\* one of the four modes; any other mode argument is answered with the
\* message that the mode is not recognized and leaves new_mode as it was; no
\* mode argument leaves new_mode as it was; Scoreboard.mode is not touched.
C13_RequestModeValidates ==
    [][ SettingsServed =>
          LET arg == sreq'.body[1]
          IN /\ mode' = mode
             /\ IF arg = NoMode THEN new_mode' = new_mode
                ELSE IF arg \in {"basic", "dual", "detailed", "gamecast"}
                THEN new_mode' = arg
                ELSE /\ new_mode' = new_mode
                     /\ sresp' = Resp(200, "Mode not recognized") ]_vars

\* a request for a mode that does not exist has been answered, with another
\* mode pending
C13_Witness ==
    /\ spc = "respond"
    /\ sreq.kind = "settings"
    /\ sreq.body[1] = "bogus"
    /\ sresp = Resp(200, "Mode not recognized")
    /\ new_mode = "detailed"
    /\ mode = "dual"

(***************************************************************************)
(* C20.                                                                   *)
(***************************************************************************)
\* C20: a settings request whose id is not the text of an integer is
\* answered with a message (status 200) and leaves Gamecast.game_id as it
\* was.
C20_BadIdKeepsPin ==
    [][ (SettingsServed /\ sreq'.body[2] = "abc") =>
          /\ game_id' = game_id
          /\ sresp'.status = 200
          /\ sresp'.msg \in {"Game ID not recognized", "Mode not recognized"} ]_vars

\* an id that is no number has been refused while game 3 is pinned
C20_Witness ==
    /\ spc = "respond"
    /\ sreq.kind = "settings"
    /\ sreq.body[2] = "abc"
    /\ sresp = Resp(200, "Game ID not recognized")
    /\ game_id = 3

(***************************************************************************)
(* SpecIndex: updates are posted to the first slot, to the last slot and  *)
(* to indexes past the last slot.                                         *)
(***************************************************************************)
IndexSlots == {0, NumGames - 1, NumGames, NumGames + 1}

IndexBodies == {BodyScoresA, BodyCount}

IndexNext ==
    \/ StartTop
    \/ LoopEnter
    \/ ModeCompare
    \/ \E i \in IndexSlots, u \in IndexBodies : ReceiveData(i, u)
    \/ MergeStep
    \/ MergeEnd
    \/ PrintGameIfOnPage
    \/ ServerSwap
    \/ Respond

SpecIndex == Init /\ [][IndexNext]_vars

(***************************************************************************)
(* C14.                                                                   *)
(***************************************************************************)
\* C14: a POST to an index outside 0 .. NumGames - 1 is answered with the
\* IndexError (status 500) at once, and from its arrival to its answer no
\* record of the store, no display_game flag, and nothing of the canvas or
\* the frame changes.
C14_IndexErrorWritesNothing ==
    [][ (sreq'.kind = "update" /\ sreq'.idx \notin Slots) =>
          /\ spc' \in {"respond"}
          /\ sresp' = Resp(500, "IndexError")
          /\ games' = games
          /\ gamecast_game' = gamecast_game
          /\ canvas' = canvas
          /\ frame' = frame ]_vars

\* a POST past the last slot has failed on a board that holds a game
C14_Witness ==
    /\ spc = "respond"
    /\ sreq.kind = "update"
    /\ sreq.idx = NumGames
    /\ sresp = Resp(500, "IndexError")
    /\ Visible(games[NumGames - 1])

(***************************************************************************)
(* C15.                                                                   *)
(***************************************************************************)
\* a POST /<index> with the body {} is about to return
EmptyUpdateReturns == UpdateReturns /\ sreq.body = BodyEmpty

\* C15 as claimed: after the merge of {} the slot's record is the record it
\* had before.
C15_EmptyMergeChangesNothing ==
    EmptyUpdateReturns => games[sreq.idx] = sreq.before

\* C15 as amended: after the merge of {} every field of the slot's record
\* but display_game is the field it had before, and display_game is True (so
\* a slot that was visible is unchanged, and one that was not becomes
\* visible).
C15_EmptyMergeSetsVisible ==
    EmptyUpdateReturns =>
        /\ games[sreq.idx] = Put(sreq.before, "display_game", Bool(TRUE))
        /\ Visible(sreq.before) => games[sreq.idx] = sreq.before

\* {} was posted to a slot that held the template
C15_Witness ==
    /\ EmptyUpdateReturns
    /\ sreq.before = game_template
    /\ sresp = Resp(200, "ok")
    /\ Visible(games[0])

(***************************************************************************)
(* C16.                                                                   *)
(***************************************************************************)
\* C16: GET /reset makes display_game False in every slot and in the gamecast
\* record and leaves every other field of every record, the number of slots
\* and the pinned id as they were, up to its return.
C16_ResetClearsFlagsOnly ==
    [][ /\ (spc = "idle" /\ sreq'.kind = "reset") =>
              /\ DOMAIN games' = DOMAIN games
              /\ \A i \in DOMAIN games :
                    games'[i] = Put(games[i], "display_game", Bool(FALSE))
              /\ gamecast_game' = Put(gamecast_game, "display_game", Bool(FALSE))
              /\ game_id' = game_id
        /\ sreq.kind = "reset" =>
              /\ games' = games
              /\ gamecast_game' = gamecast_game
              /\ game_id' = game_id ]_vars

\* a reset is answered: the records keep their scores and are not visible
C16_Witness ==
    /\ sreq.kind = "reset"
    /\ spc = "respond"
    /\ Get(games[0], "away_score") # Nil
    /\ ~ Visible(games[0])
    /\ Get(gamecast_game, "away_score") # Nil
    /\ ~ Visible(gamecast_game)

(***************************************************************************)
(* C17.                                                                   *)
(***************************************************************************)
\* the step in which the handler of POST /gamecast runs print_gamecast()
HandlerDrawsPanel == spc = "gc_draw" /\ spc' # "gc_draw"

\* the step in which Scoreboard.start runs print_gamecast()
LoopDrawsPanel == rpc = "top" /\ rpc' # "top" /\ canvas' # canvas

\* C17: print_gamecast() runs, in the render loop or in the handler of
\* POST /gamecast, only while Scoreboard.mode is gamecast.
C17_PanelOnlyInGamecast ==
    [][ (HandlerDrawsPanel \/ LoopDrawsPanel) => mode = "gamecast" ]_vars

(***************************************************************************)
(* The texts of the boxes.  The store holds one game the feeder has sent, *)
(* in any of the states and innings below; the render loop draws it in    *)
(* the mode the operator has asked for, and the handler of a later update *)
(* draws it again.                                                        *)
(***************************************************************************)
RenderInnings == {7, 9, 10, 11}

RenderHalves == {"T", "B"}

RenderOuts == {0, 2, 3}

\* away_score and home_score
RenderScores == {<<3, 1>>, <<1, 3>>, <<2, 2>>}

\* decisions.save: no save, or the pitcher with the save
RenderSaves == {Nil, Str("Duran")}

\* game_state 'S' and 'D'
RenderStopped == {"S", "D"}

RenderBody(st, inn, half, outs, score, save) ==
    <<<<"game_state", Str(st)>>, <<"inning", Num(inn)>>,
      <<"inning_state", Str(half)>>,
      <<"away_score", Num(score[1])>>, <<"home_score", Num(score[2])>>,
      <<"count", Body(<<<<"outs", Num(outs)>>>>)>>,
      <<"runners", Num(5)>>,
      <<"matchup", Body(<<<<"batter", Str("Soto")>>, <<"batter_summary", Str("1-3")>>,
                          <<"pitcher", Str("Skubal")>>, <<"pitcher_summary", Str("P:88")>>>>)>>,
      <<"decisions", Body(<<<<"win", Str("Skubal")>>, <<"win_summary", Str("13-4")>>,
                            <<"loss", Str("Cole")>>, <<"loss_summary", Str("8-5")>>,
                            <<"save", save>>, <<"save_summary", Str("21")>>>>)>>>>

RenderGame(body) == SetVisible(recursive_update(game_template, body).val, TRUE)

\* the games the feeder has sent: live, final, and suspended or delayed
RenderGames ==
    {RenderGame(RenderBody("L", 7, half, outs, <<1, 3>>, Nil)) :
        half \in RenderHalves, outs \in RenderOuts} \cup
    {RenderGame(RenderBody("F", inn, "B", 3, score, save)) :
        inn \in RenderInnings, score \in RenderScores, save \in RenderSaves} \cup
    {RenderGame(RenderBody(st, 7, "T", 2, <<1, 3>>, Nil)) : st \in RenderStopped}

RenderModes == {"basic", "detailed", "dual"}

RenderSlots == {0}

RenderBodies == {BodyScoresA}

InitRender ==
    /\ \E g \in RenderGames :
          games = [i \in Slots |-> IF i = 0 THEN g ELSE game_template]
    /\ gamecast_game = game_template
    /\ game_id = 0 - 1
    /\ merged = {0}
    /\ InitThreads
    /\ mode = "dual"
    /\ new_mode \in RenderModes
    /\ ag_mode = NoMode
    /\ num_pages = 0
    /\ page = 0

TextNext ==
    \/ StartTop
    \/ LoopEnter
    \/ PrintPageDraw
    \/ PrintPageSwap
    \/ PageNext
    \/ ModeCompare
    \/ ModeCommit
    \/ \E i \in RenderSlots, u \in RenderBodies : ReceiveData(i, u)
    \/ MergeStep
    \/ MergeEnd
    \/ PrintGameIfOnPage
    \/ ServerSwap
    \/ Respond

SpecRender == InitRender /\ [][TextNext]_vars

\* the drawn boxes of the back buffer and of the panel
DrawnBoxes == {canvas[c] : c \in {d \in Cells : canvas[d].k = "game"}} \cup
              {frame[c] : c \in {d \in Cells : frame[d].k = "game"}}

DigitValue(ch) ==
    CASE ch = "0" -> 0 [] ch = "1" -> 1 [] ch = "2" -> 2 [] ch = "3" -> 3
      [] ch = "4" -> 4 [] ch = "5" -> 5 [] ch = "6" -> 6 [] ch = "7" -> 7
      [] ch = "8" -> 8 [] ch = "9" -> 9 [] OTHER -> 0 - 1

RECURSIVE DecimalValue(_)
DecimalValue(chars) ==
    IF chars = <<>> THEN 0
    ELSE 10 * DecimalValue(SubSeq(chars, 1, Len(chars) - 1))
         + DigitValue(chars[Len(chars)])

IsDecimal(chars) ==
    /\ chars # <<>>
    /\ \A n \in 1..Len(chars) : DigitValue(chars[n]) \in 0..9

\* C18: a drawn FINAL game carries the text "F" when its inning is 9, and
\* for every other inning the text "F/" followed by the inning in decimal
\* ("F/11" for inning 11).
C18_FinalLabel ==
    \A b \in DrawnBoxes :
        Get(b.g, "game_state") = Str("F") =>
            LET inning == Get(b.g, "inning").v
                label  == b.text.label
            IN /\ (inning = 9) => label = <<"F">>
               /\ (inning = 11) => label = <<"F", "/", "1", "1">>
               /\ (inning # 9) =>
                     /\ Len(label) > 2
                     /\ SubSeq(label, 1, 2) = <<"F", "/">>
                     /\ IsDecimal(SubSeq(label, 3, Len(label)))
                     /\ DecimalValue(SubSeq(label, 3, Len(label))) = inning

\* a FINAL game of eleven innings is on the display as "F/11"
C18_Witness ==
    \E c \in Cells :
        /\ frame[c].k = "game"
        /\ Get(frame[c].g, "game_state") = Str("F")
        /\ Get(frame[c].g, "inning") = Num(11)
        /\ frame[c].text.label = <<"F", "/", "1", "1">>

\* the two lines of a box whose batter is up in the top half
TopPairing(box) == box.text.a[1] = "B:" /\ box.text.c[1] = "P:"

\* the two lines of a box whose batter is up in the bottom half
BottomPairing(box) == box.text.a[1] = "P:" /\ box.text.c[1] = "B:"

\* C19: in detailed mode a drawn LIVE game with three outs shows the
\* batter and pitcher lines of the half opposite to its inning_state, and
\* with fewer outs the lines of its inning_state.
C19_ThirdOutTurnsPairing ==
    \A b \in DrawnBoxes :
        (b.m = "detailed" /\ Get(b.g, "game_state") = Str("L")) =>
            LET top  == Get(b.g, "inning_state") = Str("T")
                outs == Get(Get(b.g, "count"), "outs").v
            IN /\ Len(b.text.a) > 0 /\ Len(b.text.c) > 0
               /\ (outs = 3 /\ top) => BottomPairing(b)
               /\ (outs = 3 /\ ~ top) => TopPairing(b)
               /\ (outs \in 0..2 /\ top) => TopPairing(b)
               /\ (outs \in 0..2 /\ ~ top) => BottomPairing(b)

\* a LIVE game in the top half with three outs is on the display in
\* detailed mode, with the pitcher's line first
C19_Witness ==
    \E c \in Cells :
        /\ frame[c].k = "game"
        /\ frame[c].m = "detailed"
        /\ Get(frame[c].g, "game_state") = Str("L")
        /\ Get(frame[c].g, "inning_state") = Str("T")
        /\ Get(Get(frame[c].g, "count"), "outs") = Num(3)
        /\ frame[c].text.a[1] = "P:"

\* C21: the pages of a cycle are shown in the order 0, 1, ..., num_pages - 1:
\* a cycle starts with page 0, each page is drawn, put on the display and
\* held for one dwell, the page after page p is p + 1, and only after page
\* num_pages - 1 does the loop return, so that the next page shown is 0.
C21_PagesInOrder ==
    [][/\ (rpc' = "draw" /\ rpc # "draw") =>
              \/ rpc = "loop" /\ page' = 0 /\ num_pages' > 0
              \/ rpc = "dwell" /\ page' = page + 1 /\ page' < num_pages
       /\ (rpc = "draw" /\ rpc' # "draw") =>
              /\ rpc' = "swap" /\ page' = page
              /\ canvas'[IndCell] = IndImg(page)
       /\ (rpc = "swap" /\ rpc' # "swap") =>
              /\ rpc' = "dwell" /\ page' = page
              /\ frame'[IndCell] = IndImg(page)
       /\ (rpc = "dwell" /\ rpc' # "dwell") =>
              \/ rpc' = "draw"
              \/ rpc' = "cmp" /\ page = num_pages - 1 /\ page' = page
       /\ (page' # page) => rpc' = "draw"
      ]_vars

\* the third and last page of a cycle is on the display
C21_Witness ==
    /\ rpc = "dwell"
    /\ num_pages = 3
    /\ page = 2
    /\ frame[IndCell] = IndImg(2)

\* the keys for which the partial brings a dict where the record held None
\* or a scalar
ObjectOverLeaf(d, u) ==
    {n \in 1..Len(u) : /\ u[n][2].t = "p"
                        /\ Has(d, u[n][1])
                        /\ Get(d, u[n][1]).t \in {"n", "s", "b", "x"}}

\* C22: when the partial brings a dict for a key that held None or a scalar
\* in the slot, POST /{index} returns without an error and the key then holds
\* the dict of the partial.
C22_ObjectOverwritesLeaf ==
    UpdateReturns =>
        \A n \in ObjectOverLeaf(sreq.before, sreq.body) :
            /\ sresp.status = 200
            /\ Get(games[sreq.idx], sreq.body[n][1]) =
                   DeepMerge(EmptyDict, sreq.body[n][2].v)

(***************************************************************************)
(* GET /reset on a loaded store, while the render thread runs.            *)
(***************************************************************************)
ResetNext ==
    \/ RenderNext
    \/ ResetGames
    \/ ResetClear
    \/ ServerSwap
    \/ Respond

SpecReset == InitPage /\ [][ResetNext]_vars

ResetReturns == spc = "respond" /\ sreq.kind = "reset" /\ sresp.status = 200

\* C23: when GET /reset returns, the frame on the display is blank in every
\* region: the boxes of both columns, the gamecast panel and the row of the
\* page indicator.
C23_ResetClearsFrame ==
    ResetReturns => \A c \in Cells : frame[c] = Blank

\* the FINAL games drawn in detailed mode
FinalDetailed == {b \in DrawnBoxes : b.m = "detailed" /\ Get(b.g, "game_state") = Str("F")}

\* C24 as claimed: in detailed mode the first decision line of a FINAL game
\* is the winning pitcher's and the last one the losing pitcher's, whichever
\* team has more runs.
C24_WinnerLineFirst ==
    \A b \in FinalDetailed :
        Get(b.g, "away_score") # Get(b.g, "home_score") =>
            /\ b.text.a # NoText /\ b.text.a[1] = "WP:"
            /\ b.text.c # NoText /\ b.text.c[1] = "LP:"

\* C24 as amended: the first line belongs to the away team and the last
\* line to the home team: the winning pitcher is first when the away team
\* has more runs, the losing pitcher is first when the home team has more
\* runs; the save line, if there is a save, lies between them; with equal
\* runs no decision line is drawn.
C24_AwayLineFirst ==
    \A b \in FinalDetailed :
        LET away == Get(b.g, "away_score").v
            home == Get(b.g, "home_score").v
            save == Get(Get(b.g, "decisions"), "save")
        IN /\ (away > home) =>
                 /\ b.text.a = <<"WP:", "Skubal", " (", "13-4", ")">>
                 /\ b.text.c = <<"LP:", "Cole", " (", "8-5", ")">>
           /\ (home > away) =>
                 /\ b.text.a = <<"LP:", "Cole", " (", "8-5", ")">>
                 /\ b.text.c = <<"WP:", "Skubal", " (", "13-4", ")">>
           /\ (away # home /\ save # Nil) => b.text.b = <<"SV:", "Duran", " (", "21", ")">>
           /\ (away # home /\ save = Nil) => b.text.b = NoText
           /\ (away = home) =>
                 b.text.a = NoText /\ b.text.b = NoText /\ b.text.c = NoText

\* a FINAL game the home team has won, with a save, is on the display in
\* detailed mode with the losing pitcher's line first
C24_Witness ==
    \E c \in Cells :
        /\ frame[c].k = "game"
        /\ frame[c].m = "detailed"
        /\ Get(frame[c].g, "game_state") = Str("F")
        /\ Get(frame[c].g, "home_score").v > Get(frame[c].g, "away_score").v
        /\ frame[c].text.a[1] = "LP:"
        /\ frame[c].text.b # NoText

\* the status label of a box: the short text beside the scores, or the
\* long text of the second column
StatusLabel(box) ==
    IF box.text.label # NoText THEN box.text.label ELSE box.text.a

\* C25: a drawn game that is suspended or delayed shows its scores, its
\* inning and a status label in every mode, and shows outs and runners
\* in detailed mode only.
C25_StoppedGameParts ==
    \A b \in DrawnBoxes :
        Get(b.g, "game_state") \in {Str("S"), Str("D")} =>
            /\ {"scores", "inning"} \subseteq b.text.parts
            /\ StatusLabel(b) \in {<<"Susp">>, <<"Dly">>, <<"Suspended">>, <<"Delayed">>}
            /\ ({"outs", "runners"} \subseteq b.text.parts) <=> (b.m = "detailed")
            /\ ({"outs", "runners"} \cap b.text.parts = {}) <=> (b.m # "detailed")

(***************************************************************************)
(* The gamecast panel.  The gamecast record holds a live game with any    *)
(* of the optional blocks the feeder sends; the operator has asked for    *)
(* gamecast mode.                                                         *)
(***************************************************************************)
PanelBase ==
    <<<<"game_state", Str("L")>>, <<"away_score", Num(1)>>, <<"home_score", Num(3)>>,
      <<"inning", Num(7)>>, <<"inning_state", Str("T")>>, <<"runners", Num(5)>>,
      <<"away", Body(<<<<"abv", Str("NYY")>>, <<"name", Str("Yankees")>>>>)>>,
      <<"home", Body(<<<<"abv", Str("DET")>>, <<"name", Str("Tigers")>>>>)>>,
      <<"count", Body(<<<<"balls", Num(3)>>, <<"strikes", Num(2)>>, <<"outs", Num(1)>>>>)>>>>

\* the umpire block: absent, in favor of the home team, in favor of the away team
PanelUmpire ==
    {<<>>,
     <<<<"umpire", Body(<<<<"num_missed", Num(4)>>, <<"home_favor", Num(2)>>>>)>>>>,
     <<<<"umpire", Body(<<<<"num_missed", Num(4)>>, <<"home_favor", Num(0 - 1)>>>>)>>>>}

PanelRunExpectancy ==
    {<<>>, <<<<"run_expectancy", Body(<<<<"average_runs", Num(1)>>>>)>>>>}

PanelWinProbability ==
    {<<>>, <<<<"win_probability", Body(<<<<"away", Num(0)>>, <<"home", Num(1)>>>>)>>>>}

\* the pitch block: absent, a pitch, a step off (no speed and no zone)
PanelPitch ==
    {<<>>,
     <<<<"pitch_details", Body(<<<<"description", Str("Ball")>>, <<"speed", Num(97)>>,
                                 <<"type", Str("Sinker")>>, <<"zone", Num(5)>>>>)>>>>,
     <<<<"pitch_details", Body(<<<<"description", Str("Step Off")>>>>)>>>>}

PanelHit ==
    {<<>>,
     <<<<"hit_details", Body(<<<<"distance", Num(405)>>, <<"exit_velo", Num(98)>>,
                               <<"launch_angle", Num(27)>>>>)>>>>}

PanelGames ==
    {RenderGame(PanelBase \o u \o r \o w \o pt \o h) :
        u \in PanelUmpire, r \in PanelRunExpectancy, w \in PanelWinProbability,
        pt \in PanelPitch, h \in PanelHit}

PanelBodies == {BodyCount}

InitPanel ==
    /\ games = [i \in Slots |-> game_template]
    /\ gamecast_game \in PanelGames
    /\ game_id = 0 - 1
    /\ merged = {GamecastRecord}
    /\ InitThreads
    /\ mode = "dual"
    /\ new_mode = "gamecast"
    /\ ag_mode = NoMode
    /\ num_pages = 0
    /\ page = 0

PanelNext ==
    \/ StartTop
    \/ StartGamecastSwap
    \/ LoopEnter
    \/ ModeCompare
    \/ ModeCommit
    \/ \E u \in PanelBodies : GamecastData(u)
    \/ MergeStep
    \/ MergeEnd
    \/ GamecastCheck
    \/ GamecastDraw
    \/ ServerSwap
    \/ Respond

SpecPanel == InitPanel /\ [][PanelNext]_vars

\* the panels drawn on the canvas and on the display
DrawnPanels == {canvas[c] : c \in {d \in Cells : canvas[d].k = "panel"}} \cup
               {frame[c] : c \in {d \in Cells : frame[d].k = "panel"}}

\* the optional blocks: the field that defines each, and its lines
OptionalBlocks ==
    {[group |-> "umpire", field |-> "num_missed", at |-> {4}],
     [group |-> "run_expectancy", field |-> "average_runs", at |-> {5}],
     [group |-> "win_probability", field |-> "away", at |-> {6}],
     [group |-> "pitch_details", field |-> "description", at |-> {8, 9, 10}],
     [group |-> "hit_details", field |-> "distance", at |-> {12, 13, 14}]}

Skipped(box, blk) == Get(Get(box.g, blk.group), blk.field) = Nil

\* C26 as claimed: an optional block whose field is unset draws nothing, and
\* the panel is shorter for it: no line position of a skipped block is left
\* blank with a drawn line below it.
C26_SkippedBlockLeavesNoGap ==
    \A b \in DrawnPanels : \A blk \in OptionalBlocks :
        Skipped(b, blk) =>
            \A n \in blk.at :
                b.lines[n] = NoText => \A q \in PanelLines : q > n => b.lines[q] = NoText

\* C26 as amended: an optional block whose field is unset draws nothing and
\* a block whose field is set draws its first line; every line has a fixed
\* position (umpire 4, run expectancy 5, win probability 6, pitch 8 to 10,
\* hit 12 to 14; 0 to 2 are the teams and the count, and 3, 7 and 11 are
\* never drawn), so the lines of a skipped block stay blank and the other
\* lines do not move up.
C26_SkippedBlockLeavesBlank ==
    \A b \in DrawnPanels :
        /\ \A blk \in OptionalBlocks :
              /\ Skipped(b, blk) => \A n \in blk.at : b.lines[n] = NoText
              /\ ~ Skipped(b, blk) =>
                    b.lines[CHOOSE n \in blk.at : \A k \in blk.at : n <= k] # NoText
        /\ b.lines[0] = <<"Yankees">> /\ b.lines[1] = <<"Tigers">>
        /\ b.lines[2] # NoText
        /\ b.lines[3] = NoText /\ b.lines[7] = NoText /\ b.lines[11] = NoText
        /\ Get(Get(b.g, "umpire"), "home_favor") = Num(2) =>
              b.lines[4] = <<"Ump: +", "2", ".", "0", "0", " ", "DET", " (", "4", ")">>
        /\ Get(Get(b.g, "hit_details"), "exit_velo") = Num(98) =>
              b.lines[13] = <<"  EV: ", " ", "9", "8", ".", "0", " MPH">>

\* a panel without the umpire block and with the hit block is on the display:
\* line 4 is blank and lines 12 to 14 are drawn
C26_Witness ==
    \E c \in Cells :
        /\ frame[c].k = "panel"
        /\ Get(Get(frame[c].g, "umpire"), "num_missed") = Nil
        /\ Get(Get(frame[c].g, "hit_details"), "distance") # Nil
        /\ frame[c].lines[4] = NoText
        /\ frame[c].lines[12] # NoText

(***************************************************************************)
(* Updates and resets on a loaded store, while the render thread runs.    *)
(***************************************************************************)
\* the visible slots at the start: two pages, or three pages
StaleSets == {0..5, 0..10}

StaleModes == {"basic", "dual"}

InitStale ==
    /\ \E S \in StaleSets :
          games = [i \in Slots |-> IF i \in S THEN LoadedGame ELSE game_template]
    /\ gamecast_game = game_template
    /\ game_id = 0 - 1
    /\ merged = {i \in Slots : Visible(games[i])}
    /\ InitThreads
    /\ mode = "dual"
    /\ new_mode \in StaleModes
    /\ ag_mode = NoMode
    /\ num_pages = 0
    /\ page = 0

StaleNext ==
    \/ StartTop
    \/ LoopEnter
    \/ PrintPageDraw
    \/ PrintPageSwap
    \/ PageNext
    \/ ModeCompare
    \/ ModeCommit
    \/ \E i \in LoadedSlots, u \in LoadedBodies : ReceiveData(i, u)
    \/ MergeStep
    \/ MergeEnd
    \/ PrintGameIfOnPage
    \/ ResetGames
    \/ ResetClear
    \/ ServerSwap
    \/ Respond

SpecStale == InitStale /\ [][StaleNext]_vars

\* print_game_if_on_page is about to read all_games.page
ReconcilerReads == spc = "reconcile"

\* C27: whenever the handler of an update reads the page index, it is a
\* page of the store as it is now: 0 <= page < max(1, number of pages of the
\* visible games).
C27_PageIndexInRange ==
    ReconcilerReads =>
        /\ 0 <= page
        /\ page < Max(1, loop_num_pages(games))

\* a step that clears or draws game boxes: print_page of the render loop,
\* print_game of an update's handler, the clear_game calls of a reset
BoxesDrawn ==
    \/ rpc = "draw" /\ rpc' = "swap"
    \/ spc = "reconcile" /\ spc' = "swap"
    \/ spc = "reset_clear" /\ spc' = "swap"

\* C28: whenever game boxes are cleared or drawn, AllGames.mode, which gives
\* the boxes their width, is Scoreboard.mode, which gives the handler its
\* page window.
C28_DrawModeIsCurrentMode ==
    [][BoxesDrawn => ag_mode = mode]_vars

\* a step of a handler that calls AllGames.clear_game: the loop of a reset,
\* or print_game for a game on the page
ClearGameCalled ==
    \/ spc = "reset_clear" /\ spc' # "reset_clear"
    \/ /\ spc = "reconcile" /\ spc' # "reconcile"
       /\ on_page(mode, shifted_game_index(sreq.idx, page))

\* C29: a handler calls clear_game only when AllGames.mode holds one of the
\* four modes, so that POST /{index} and GET /reset never end in the
\* ValueError of an unset mode.
C29_ClearGameHasMode ==
    [][ClearGameCalled =>
          /\ ag_mode \in acceptable_modes
          /\ sresp'.msg # "ValueError"]_vars

\* C30: a settings request that is answered with an error message leaves
\* both new_mode and Gamecast.game_id as they were.
C30_ErrorChangesNothing ==
    [][ (/\ SettingsServed
         /\ sresp'.msg \in {"Mode not recognized", "Game ID not recognized"}) =>
          /\ new_mode' = new_mode
          /\ game_id' = game_id ]_vars

====
